---- MODULE Spec2Model ----
(***************************************************************************)
(* Model of ArdupilotLaunchTool (ardupilot_launch_tool.py): the manager of *)
(* one external sim_vehicle.py process, its argument list, its temporary   *)
(* working directory and its clean-up on destruction.                      *)
(*                                                                         *)
(* Strings are TLA+ strings; formatting (f-strings, str(int)) is computed  *)
(* character by character.  A subprocess.Popen object is the index of its  *)
(* entry in `spawned`; Python's None handle is 0.  A kill() call on a      *)
(* Popen object is counted in that entry's `kills` field.                  *)
(***************************************************************************)
EXTENDS Integers, Sequences, FiniteSets, TLC

VARIABLES
    phase,              \* "new" (before __init__), "live", "destroyed" (after __del__)
    ardupilot_process,  \* self.ardupilot_process: None or a Popen handle
    vehicle_id,         \* self.vehicle_id
    wipe_eeprom,        \* self.wipe_eeprom
    enable_logs,        \* self.enable_logs
    log_dir,            \* self.log_dir
    root_fs,            \* self.root_fs: the TemporaryDirectory object
    fs,                 \* temporary directories that exist on disk
    spawned,            \* every process Popen has created, in order
    rmtrees,            \* number of recursive deletions of root_fs.name
    ctor,               \* the arguments __init__ was called with
    pending,            \* a launch succeeded and kill_ardupilot was not called since
    last                \* the most recent call on the object and its outcome

vars == <<phase, ardupilot_process, vehicle_id, wipe_eeprom, enable_logs,
          log_dir, root_fs, fs, spawned, rmtrees, ctor, pending, last>>

config == <<vehicle_id, wipe_eeprom, enable_logs, log_dir>>

-----------------------------------------------------------------------------
(* Bounds *)

MaxLaunches == 3        \* successful Popen calls in one behaviour
IdBound == 12           \* vehicle_id ranges over -IdBound..IdBound

VehicleIds == (0 - IdBound)..IdBound

\* The log_dir argument: <<>> is None, <<s>> is the string s.
LogDirArgs == {<<>>, <<"">>, <<"/var/log/ardu">>}

\* Names tempfile may hand out, and what may already exist on disk.
TmpNames == {"/tmp/tmpa", "/tmp/tmpb"}

-----------------------------------------------------------------------------
(* Python values *)

None == 0

NoFault == "none"

\* os.path.dirname(os.path.abspath(__file__))
InstallDir == "/opt/pegasus/tools"

StartsWith(s, p) == Len(s) >= Len(p) /\ SubSeq(s, 1, Len(p)) = p

Digit(d) == SubSeq("0123456789", d + 1, d + 1)

RECURSIVE StrNat(_)
StrNat(n) == IF n < 10 THEN Digit(n) ELSE StrNat(n \div 10) \o Digit(n % 10)

\* str(int) as used by the f-string f"--sysid={self.vehicle_id}"
Str(n) == IF n < 0 THEN "-" \o StrNat(0 - n) ELSE StrNat(n)

-----------------------------------------------------------------------------
(* __init__ *)

\* if log_dir != None: self.log_dir = log_dir  else: the install directory
DefaultLogDir(arg) == IF arg # <<>> THEN arg[1] ELSE InstallDir

\* tempfile.TemporaryDirectory(): a directory that did not exist before
TemporaryDirectory(name) ==
    /\ name \in TmpNames \ fs
    /\ root_fs' = [name |-> name]
    /\ fs' = fs \cup {name}

__init__ ==
    /\ phase = "new"
    /\ \E el \in BOOLEAN, ld \in LogDirArgs, we \in BOOLEAN, vid \in VehicleIds :
          /\ ardupilot_process' = None
          /\ vehicle_id' = vid
          /\ wipe_eeprom' = we
          /\ enable_logs' = el
          /\ log_dir' = DefaultLogDir(ld)
          /\ ctor' = [enable_logs |-> el, log_dir |-> ld,
                      wipe_eeprom |-> we, vehicle_id |-> vid]
    /\ \E name \in TmpNames : TemporaryDirectory(name)
    /\ phase' = "live"
    /\ last' = [op |-> "__init__", fault |-> NoFault, pre |-> None]
    /\ UNCHANGED <<spawned, rmtrees, pending>>

-----------------------------------------------------------------------------
(* launch_ardupilot *)

\* parm_path = os.path.dirname(os.path.abspath(__file__)) + "/ardu.parm"
parm_path == InstallDir \o "/ardu.parm"

eepromInverted == IF wipe_eeprom THEN "" ELSE "-w"

\* eeprom = '-w' if self.wipe_eeprom else ''
eeprom == IF wipe_eeprom THEN "-w" ELSE ""

logsAlways == "--aircraft=" \o log_dir

\* logs = f"--aircraft={self.log_dir}" if self.enable_logs else ''
logs == IF enable_logs THEN "--aircraft=" \o log_dir ELSE ""

ArgsOmitEmpty ==
    LET NonEmpty(a) == a # ""
    IN  SelectSeq(<<"sim_vehicle.py", "-v", "ArduCopter",
                    "--sysid=" \o Str(vehicle_id),
                    "--add-param-file=" \o parm_path,
                    logs, eeprom>>, NonEmpty)

\* The list passed to subprocess.Popen
Args ==
    <<"sim_vehicle.py",
      "-v",
      "ArduCopter",
      "--sysid=" \o Str(vehicle_id),
      "--add-param-file=" \o parm_path,
      logs,
      eeprom>>

CwdLogDir == log_dir

\* cwd=self.root_fs.name
Cwd == root_fs.name

\* subprocess.Popen(args, cwd=..., shell=False) returning normally: a new
\* process exists and the attribute is bound to its handle.
launch_ardupilot ==
    /\ phase = "live"
    /\ Len(spawned) < MaxLaunches
    /\ spawned' = Append(spawned, [args |-> Args, cwd |-> Cwd,
                                   shell |-> FALSE, kills |-> 0])
    /\ ardupilot_process' = Len(spawned) + 1
    /\ pending' = TRUE
    /\ last' = [op |-> "launch_ardupilot", fault |-> NoFault,
                pre |-> ardupilot_process]
    /\ UNCHANGED <<phase, config, root_fs, fs, rmtrees, ctor>>

launch_ardupilot_fault_clears ==
    /\ phase = "live"
    /\ ardupilot_process' = None
    /\ last' = [op |-> "launch_ardupilot", fault |-> "OSError",
                pre |-> ardupilot_process]
    /\ UNCHANGED <<phase, config, root_fs, fs, spawned, rmtrees, ctor, pending>>

\* subprocess.Popen raising (executable not found, permission denied): the
\* exception leaves launch_ardupilot before the assignment on line 60.
launch_ardupilot_fault ==
    /\ phase = "live"
    /\ last' = [op |-> "launch_ardupilot", fault |-> "OSError",
                pre |-> ardupilot_process]
    /\ UNCHANGED <<phase, ardupilot_process, config, root_fs, fs, spawned,
                   rmtrees, ctor, pending>>

-----------------------------------------------------------------------------
(* kill_ardupilot *)

\* Popen.kill() on handle h
kill(h) == spawned' = [spawned EXCEPT ![h].kills = @ + 1]

kill_body_keeps_handle ==
    IF ardupilot_process # None
    THEN /\ kill(ardupilot_process)
         /\ UNCHANGED ardupilot_process
    ELSE UNCHANGED <<spawned, ardupilot_process>>

\* The statements of kill_ardupilot (lines 79-81)
kill_body ==
    IF ardupilot_process # None
    THEN /\ kill(ardupilot_process)
         /\ ardupilot_process' = None
    ELSE UNCHANGED <<spawned, ardupilot_process>>

kill_ardupilot_unguarded ==
    /\ phase = "live"
    /\ IF ardupilot_process # None
       THEN /\ kill(ardupilot_process)
            /\ ardupilot_process' = None
            /\ last' = [op |-> "kill_ardupilot", fault |-> NoFault,
                        pre |-> ardupilot_process]
       ELSE /\ UNCHANGED <<spawned, ardupilot_process>>
            /\ last' = [op |-> "kill_ardupilot", fault |-> "AttributeError",
                        pre |-> ardupilot_process]
    /\ pending' = FALSE
    /\ UNCHANGED <<phase, config, root_fs, fs, rmtrees, ctor>>

kill_ardupilot ==
    /\ phase = "live"
    /\ kill_body
    /\ pending' = FALSE
    /\ last' = [op |-> "kill_ardupilot", fault |-> NoFault,
                pre |-> ardupilot_process]
    /\ UNCHANGED <<phase, config, root_fs, fs, rmtrees, ctor>>

-----------------------------------------------------------------------------
(* __del__ *)

cleanup_noop == UNCHANGED <<fs, rmtrees>>

\* self.root_fs.cleanup(): the directory tree is removed if it is there
cleanup ==
    IF root_fs.name \in fs
    THEN /\ fs' = fs \ {root_fs.name}
         /\ rmtrees' = rmtrees + 1
    ELSE UNCHANGED <<fs, rmtrees>>

del_without_kill ==
    /\ phase = "live"
    /\ UNCHANGED <<spawned, ardupilot_process>>
    /\ cleanup
    /\ phase' = "destroyed"
    /\ last' = [op |-> "__del__", fault |-> NoFault,
                pre |-> ardupilot_process]
    /\ UNCHANGED <<config, root_fs, ctor, pending>>

\* The finalizer runs once, when the object is no longer referenced; no
\* method is called on the object afterwards.
__del__ ==
    /\ phase = "live"
    /\ IF ardupilot_process # None
       THEN kill_body
       ELSE UNCHANGED <<spawned, ardupilot_process>>
    /\ cleanup
    /\ phase' = "destroyed"
    /\ last' = [op |-> "__del__", fault |-> NoFault,
                pre |-> ardupilot_process]
    /\ UNCHANGED <<config, root_fs, ctor, pending>>

-----------------------------------------------------------------------------
(* Specification *)

\* Before __init__ the attributes are unset; they hold placeholders.
Init ==
    /\ phase = "new"
    /\ ardupilot_process = None
    /\ vehicle_id = 0
    /\ wipe_eeprom = FALSE
    /\ enable_logs = FALSE
    /\ log_dir = ""
    /\ root_fs = [name |-> ""]
    /\ fs \in {{}, {"/tmp/tmpa"}}
    /\ spawned = <<>>
    /\ rmtrees = 0
    /\ ctor = [enable_logs |-> FALSE, log_dir |-> <<>>,
               wipe_eeprom |-> FALSE, vehicle_id |-> 0]
    /\ pending = FALSE
    /\ last = [op |-> "", fault |-> NoFault, pre |-> None]

Next ==
    \/ __init__
    \/ launch_ardupilot
    \/ launch_ardupilot_fault
    \/ kill_ardupilot
    \/ __del__

Spec == Init /\ [][Next]_vars

TypeOK ==
    /\ phase \in {"new", "live", "destroyed"}
    /\ ardupilot_process \in 0..Len(spawned)
    /\ vehicle_id \in VehicleIds
    /\ wipe_eeprom \in BOOLEAN
    /\ enable_logs \in BOOLEAN
    /\ fs \subseteq TmpNames
    /\ Len(spawned) <= MaxLaunches
    /\ rmtrees \in 0..1

-----------------------------------------------------------------------------
(* Vocabulary of the properties *)

Procs == 1..Len(spawned)

Range(a) == {a[i] : i \in 1..Len(a)}

\* The log directory the constructor arguments configure
ConfiguredLogDir ==
    IF ctor.log_dir = <<>> THEN "/opt/pegasus/tools" ELSE ctor.log_dir[1]

IsDigit(c) == \E d \in 0..9 : Digit(d) = c

DigitVal(c) == CHOOSE d \in 0..9 : Digit(d) = c

RECURSIVE ParseNat(_)
ParseNat(s) ==
    IF s = "" THEN 0
    ELSE ParseNat(SubSeq(s, 1, Len(s) - 1)) * 10
            + DigitVal(SubSeq(s, Len(s), Len(s)))

\* s is the decimal text Python prints for an integer
IsDecimal(s) ==
    LET body == IF StartsWith(s, "-") THEN SubSeq(s, 2, Len(s)) ELSE s
    IN  /\ body # ""
        /\ \A i \in 1..Len(body) : IsDigit(SubSeq(body, i, i))
        /\ (Len(body) > 1 => SubSeq(body, 1, 1) # "0")
        /\ (StartsWith(s, "-") => body # "0")

ParseInt(s) ==
    IF StartsWith(s, "-") THEN 0 - ParseNat(SubSeq(s, 2, Len(s)))
    ELSE ParseNat(s)

AfterPrefix(s, p) == SubSeq(s, Len(p) + 1, Len(s))

Constructs == phase = "new" /\ phase' = "live"

Destructs == phase = "live" /\ phase' = "destroyed"

-----------------------------------------------------------------------------
(* Properties *)

\* C1: when __del__ runs after a successful launch_ardupilot() with no
\* kill_ardupilot() since, the process that launch spawned receives a kill,
\* the handle is cleared and the scratch directory is removed.
C1_DelKillsAndRemoves ==
    [][(Destructs /\ pending) =>
          /\ ardupilot_process \in Procs
          /\ spawned[ardupilot_process].kills = 0
          /\ spawned'[ardupilot_process].kills = 1
          /\ ardupilot_process' = None
          /\ root_fs.name \in fs
          /\ root_fs.name \notin fs']_vars

C1_Witness ==
    /\ phase = "destroyed"
    /\ pending
    /\ last.pre \in Procs
    /\ spawned[last.pre].kills = 1
    /\ ardupilot_process = None
    /\ root_fs.name \notin fs

\* C2: whatever launch_ardupilot()/kill_ardupilot() calls were made (none
\* included), destruction deletes the scratch directory exactly once, and
\* sends no kill when no handle is present at destruction.
C2_ScratchDeletedExactlyOnce ==
    /\ [](rmtrees = IF phase = "destroyed" THEN 1 ELSE 0)
    /\ [][Destructs =>
             /\ rmtrees' = rmtrees + 1
             /\ root_fs.name \in fs
             /\ fs' = fs \ {root_fs.name}
             /\ (ardupilot_process = None => spawned' = spawned)]_vars

C2_Witness ==
    /\ phase = "destroyed"
    /\ spawned = <<>>
    /\ last.pre = None
    /\ rmtrees = 1
    /\ root_fs.name \notin fs

\* C3: kill_ardupilot() with no handle present is a no-op: no fault, no
\* kill sent, no handle created, the handle stays absent.
C3_KillWithoutHandleIsNoOp ==
    [][(phase = "live" /\ ardupilot_process = None
            /\ last'.op = "kill_ardupilot") =>
          /\ last'.fault = NoFault
          /\ spawned' = spawned
          /\ ardupilot_process' = None
          /\ UNCHANGED <<phase, config, root_fs, fs, rmtrees>>]_vars

C3_Witness ==
    /\ phase = "live"
    /\ last.op = "kill_ardupilot"
    /\ last.pre = None
    /\ last.fault = NoFault
    /\ ardupilot_process = None
    /\ spawned = <<>>

\* C4: kill_ardupilot() right after a successful launch_ardupilot() sends
\* one kill, to the process that launch spawned, and leaves the handle
\* absent; no process ever receives a second kill, destruction included.
C4_LaunchThenKillOnce ==
    /\ [][(last.op = "launch_ardupilot" /\ last.fault = NoFault
              /\ last'.op = "kill_ardupilot") =>
             /\ ardupilot_process = Len(spawned)
             /\ ardupilot_process \in Procs
             /\ last'.fault = NoFault
             /\ spawned' = [spawned EXCEPT ![Len(spawned)].kills = 1]
             /\ spawned[Len(spawned)].kills = 0
             /\ ardupilot_process' = None]_vars
    /\ [](\A p \in Procs : spawned[p].kills <= 1)

C4_Witness ==
    /\ phase = "destroyed"
    /\ last.pre = None
    /\ ~pending
    /\ Len(spawned) = 1
    /\ spawned[1].kills = 1

\* C5: at most one spawned process has not been sent a kill, and it is the
\* one the handle refers to.
C5_AtMostOneLiveProcess ==
    /\ Cardinality({p \in Procs : spawned[p].kills = 0}) <= 1
    /\ \A p \in Procs : spawned[p].kills = 0 => ardupilot_process = p

C7_WipeFlagIffWipe ==
    \A p \in Procs : ("-w" \in Range(spawned[p].args)) <=> ctor.wipe_eeprom

C7_Witness ==
    /\ Len(spawned) > 0
    /\ ctor.wipe_eeprom
    /\ "-w" \in Range(spawned[1].args)

\* C8: the argument list always has seven entries in the order command,
\* "-v", "ArduCopter", "--sysid=<vehicle_id>", "--add-param-file=<bundled
\* path>", log slot, wipe slot; a disabled optional flag is "" in its slot.
C8_FixedArgumentList ==
    \A p \in Procs :
        LET a == spawned[p].args
        IN  /\ Len(a) = 7
            /\ a[1] = "sim_vehicle.py"
            /\ a[2] = "-v"
            /\ a[3] = "ArduCopter"
            /\ StartsWith(a[4], "--sysid=")
            /\ IsDecimal(AfterPrefix(a[4], "--sysid="))
            /\ ParseInt(AfterPrefix(a[4], "--sysid=")) = ctor.vehicle_id
            /\ a[5] = "--add-param-file=/opt/pegasus/tools/ardu.parm"
            /\ StartsWith(a[6], "--aircraft=") = ctor.enable_logs
            /\ (~ctor.enable_logs => a[6] = "")
            /\ a[7] = (IF ctor.wipe_eeprom THEN "-w" ELSE "")

C8_Witness ==
    /\ Len(spawned) > 0
    /\ ~ctor.enable_logs
    /\ ~ctor.wipe_eeprom
    /\ ctor.vehicle_id = -10
    /\ spawned[1].args[4] = "--sysid=-10"
    /\ spawned[1].args[6] = ""
    /\ spawned[1].args[7] = ""

\* C9: a launch_ardupilot() whose spawn fails raises to the caller, leaves
\* the handle as it was, sends no kill and creates no process; destruction
\* afterwards still deletes the scratch directory.
C9_FailedSpawnKeepsHandle ==
    /\ [][(phase = "live" /\ last'.op = "launch_ardupilot"
              /\ last'.fault # NoFault) =>
             /\ ardupilot_process' = ardupilot_process
             /\ spawned' = spawned
             /\ UNCHANGED <<phase, root_fs, fs, rmtrees>>]_vars
    /\ [](phase = "destroyed" => root_fs.name \notin fs /\ rmtrees = 1)

C9_Witness ==
    /\ phase = "live"
    /\ last.op = "launch_ardupilot"
    /\ last.fault = "OSError"
    /\ last.pre \in Procs
    /\ ardupilot_process = last.pre
    /\ spawned[last.pre].kills = 0

\* C10: __init__ creates exactly one scratch directory; until destruction it
\* exists and is the same one; launch_ardupilot() and kill_ardupilot() leave
\* it and the configuration fields alone; every launch runs in it.
C10_ScratchAndConfigStable ==
    /\ [][Constructs =>
             /\ fs \subseteq fs'
             /\ Cardinality(fs') = Cardinality(fs) + 1
             /\ fs' \ fs = {root_fs'.name}]_vars
    /\ [][(phase = "live" /\ phase' = "live") =>
             UNCHANGED <<root_fs, fs, rmtrees, config>>]_vars
    /\ [](phase = "live" =>
             /\ root_fs.name \in fs
             /\ enable_logs = ctor.enable_logs
             /\ wipe_eeprom = ctor.wipe_eeprom
             /\ vehicle_id = ctor.vehicle_id
             /\ log_dir = ConfiguredLogDir)
    /\ [](\A p \in Procs : spawned[p].cwd = root_fs.name)

C10_Witness ==
    /\ phase = "live"
    /\ Len(spawned) = 2
    /\ last.op = "kill_ardupilot"
    /\ last.pre = 2
    /\ root_fs.name \in fs
    /\ spawned[2].cwd = root_fs.name

====
